---- MODULE Spec2Model ----
(***************************************************************************)
(* Model of the optimizer memo of Peloton (src/optimizer/memo.cpp): the    *)
(* groups, the structural dedup index and the group expressions that       *)
(* callers hand to Memo::InsertExpression; and of the lowering of an       *)
(* operator tree to a plan tree                                            *)
(* (src/optimizer/operator_to_plan_transformer.cpp), step by step with     *)
(* the call stack of the recursive visitor.                                *)
(*                                                                         *)
(* Group ids are 0-based as in the code; the group with id i is stored at  *)
(* groups[i + 1] because TLA+ sequences are 1-based.  Group expressions    *)
(* are heap objects; an object's identity is its index in objs.            *)
(***************************************************************************)
EXTENDS Integers, Sequences, FiniteSets, TLC

(* ---- bounds of the model ---- *)
MaxObjs == 2
MaxGroups == 2
MaxCalls == 2

(* ---- program constants ---- *)
(* The group id that stands for "no group": outside the ids 0, 1, ...     *)
UNDEFINED_GROUP == -1
(* The null shared_ptr; objects are numbered from 1.                      *)
NullExpr == 0

VARIABLES objs, groups, group_expressions, call

(* The fields of OperatorToPlanTransformer, the call stack of its visitor *)
(* and the ConvertOpExpression calls made so far.                         *)
VARIABLES current_children, left_columns, right_columns, output_columns,
          output_plan, stack, calls

tvars == <<current_children, left_columns, right_columns, output_columns,
           output_plan, stack, calls>>

(* IntsKey: the key that integers are added to and read from; the two    *)
(* keys handed to Compare and the tuple each was last set from; the       *)
(* schema of those tuples; the last IntsKey operation.                    *)
VARIABLES key_data, operands, source, key_schema, kcall

kvars == <<key_data, operands, source, key_schema, kcall>>

vars == <<objs, groups, group_expressions, call, tvars, kvars>>

(* Group ids a caller may pass or a Leaf may carry: allocated or not. *)
GroupIds == 0 .. MaxGroups
TargetIds == {UNDEFINED_GROUP} \cup GroupIds

(* The operator variants (kind and payload) and child group lists that    *)
(* callers build group expressions from.                                  *)
Shapes ==
  { [op |-> [type |-> "Leaf", origin_group |-> g, table |-> ""],
     child_groups |-> <<>>] : g \in {0, 1} }
  \cup
  { [op |-> [type |-> "Scan", origin_group |-> UNDEFINED_GROUP, table |-> t],
     child_groups |-> <<>>] : t \in {"T"} }
  \cup
  { [op |-> [type |-> "InnerNLJoin", origin_group |-> UNDEFINED_GROUP,
             table |-> ""],
     child_groups |-> c] : c \in {<<0, 1>>, <<1, 0>>} }

(* GroupExpression::GroupExpression: the group id starts undefined. *)
GroupExpression(shape) ==
  [op |-> shape.op, child_groups |-> shape.child_groups,
   group_id |-> UNDEFINED_GROUP]

(* GroupExpression::operator== : operator kind and payload, and the       *)
(* ordered child group ids; the group id takes no part.                   *)
StructEq(a, b) ==
  /\ a.op = b.op
  /\ a.child_groups = b.child_groups

(* GroupExpression::SetGroupID *)
SetGroupID(os, e, g) == [os EXCEPT ![e].group_id = g]

(* Group::Group(id) *)
Group(id) == [id |-> id, expressions |-> <<>>, enforced_exprs |-> <<>>]

(* Group::AddExpression, its effect on the expression: the expression's   *)
(* group id becomes the id of the group it is added to.                   *)
AddExpressionGroupID(os, g, e) == SetGroupID(os, e, g.id)

(* Group::AddExpression, its effect on the group: the expression is       *)
(* appended to the enforcer list or to the alternative list.              *)
AddExpression(g, e, enforced) ==
  IF enforced
    THEN [g EXCEPT !.enforced_exprs = Append(@, e)]
    ELSE [g EXCEPT !.expressions = Append(@, e)]

(* A variant of NewGroupId that numbers groups from 1. *)
NewGroupIdFromOne(gs) == Len(gs) + 1

(* Memo::AddNewGroup on the group vector gs: the vector afterwards; the   *)
(* id it returns is NewGroupId(gs).                                       *)
NewGroupId(gs) == Len(gs)

AddNewGroup(gs) == Append(gs, Group(NewGroupId(gs)))

(* A variant of Find that compares object identity instead of structure. *)
FindByIdentity(idx, os, gexpr) ==
  IF gexpr \in idx THEN gexpr ELSE NullExpr

(* A variant of Find that takes any stored object for a match, as a      *)
(* lookup that compared hashes only would.                                *)
FindAny(idx, os, gexpr) ==
  IF idx # {} THEN CHOOSE x \in idx : TRUE ELSE NullExpr

(* group_expressions_.find(gexpr): the stored object that is structurally *)
(* equal to gexpr, or NullExpr for end().                                 *)
Find(idx, os, gexpr) ==
  IF \E x \in idx : StructEq(os[x], os[gexpr])
    THEN CHOOSE x \in idx : StructEq(os[x], os[gexpr])
    ELSE NullExpr

(* What one call leaves behind: the three pieces of state, the value      *)
(* returned and how the call ended.                                       *)
Result(os, gs, idx, branch, outcome, ret) ==
  [objs |-> os, groups |-> gs, group_expressions |-> idx,
   branch |-> branch, outcome |-> outcome, ret |-> ret]

(* A variant of LeafBranch that takes the group id from the target. *)
LeafBranchTarget(gexpr, target_group) ==
  LET leaf == objs[gexpr].op IN
  IF ~(target_group = UNDEFINED_GROUP \/ target_group = leaf.origin_group)
    THEN {Result(objs, groups, group_expressions, "leaf", "assert", NullExpr)}
    ELSE {Result(SetGroupID(objs, gexpr, target_group), groups,
                 group_expressions, "leaf", "returned", NullExpr)}

(* A variant of LeafBranch that sets the group id before it checks the    *)
(* target group.                                                          *)
LeafBranchSetFirst(gexpr, target_group) ==
  LET leaf == objs[gexpr].op IN
  IF ~(target_group = UNDEFINED_GROUP \/ target_group = leaf.origin_group)
    THEN {Result(SetGroupID(objs, gexpr, leaf.origin_group), groups,
                 group_expressions, "leaf", "assert", NullExpr)}
    ELSE {Result(SetGroupID(objs, gexpr, leaf.origin_group), groups,
                 group_expressions, "leaf", "returned", NullExpr)}

(* Memo::InsertExpression, Leaf branch. *)
LeafBranch(gexpr, target_group) ==
  LET leaf == objs[gexpr].op IN
  IF ~(target_group = UNDEFINED_GROUP \/ target_group = leaf.origin_group)
    THEN {Result(objs, groups, group_expressions, "leaf", "assert", NullExpr)}
    ELSE {Result(SetGroupID(objs, gexpr, leaf.origin_group), groups,
                 group_expressions, "leaf", "returned", NullExpr)}

(* A variant of HitBranch that returns the caller's object. *)
HitBranchReturnsCaller(gexpr, it, target_group) ==
  IF ~(target_group = UNDEFINED_GROUP \/ target_group = objs[it].group_id)
    THEN {Result(objs, groups, group_expressions, "hit", "assert", NullExpr)}
    ELSE {Result(SetGroupID(objs, gexpr, objs[it].group_id), groups,
                 group_expressions, "hit", "returned", gexpr)}

(* A variant of HitBranch without the check of the target group. *)
HitBranchNoAssert(gexpr, it, target_group) ==
  {Result(SetGroupID(objs, gexpr, objs[it].group_id), groups,
          group_expressions, "hit", "returned", it)}

(* A variant of HitBranch that copies the group id from the caller's      *)
(* object to the stored one instead of the other way round.               *)
HitBranchSwapped(gexpr, it, target_group) ==
  IF ~(target_group = UNDEFINED_GROUP \/ target_group = objs[it].group_id)
    THEN {Result(objs, groups, group_expressions, "hit", "assert", NullExpr)}
    ELSE {Result(SetGroupID(objs, it, objs[gexpr].group_id), groups,
                 group_expressions, "hit", "returned", it)}

(* Memo::InsertExpression, the expression is already in the index. *)
HitBranch(gexpr, it, target_group) ==
  IF ~(target_group = UNDEFINED_GROUP \/ target_group = objs[it].group_id)
    THEN {Result(objs, groups, group_expressions, "hit", "assert", NullExpr)}
    ELSE {Result(SetGroupID(objs, gexpr, objs[it].group_id), groups,
                 group_expressions, "hit", "returned", it)}

(* Memo::GetGroupByID: groups_[id] is unchecked, so an id outside the     *)
(* vector is undefined behaviour.                                         *)
InRange(gs, id) == id >= 0 /\ id < Len(gs)

(* A variant of MissBranch that does not register the expression in the  *)
(* index.                                                                 *)
MissBranchNoIndex(gexpr, target_group, enforced) ==
  LET gs == IF target_group = UNDEFINED_GROUP
              THEN AddNewGroup(groups) ELSE groups
      group_id == IF target_group = UNDEFINED_GROUP
                    THEN NewGroupId(groups) ELSE target_group
  IN
  IF InRange(gs, group_id)
    THEN {Result(AddExpressionGroupID(objs, gs[group_id + 1], gexpr),
                 [gs EXCEPT ![group_id + 1] =
                    AddExpression(@, gexpr, enforced)],
                 group_expressions, "miss", "returned", gexpr)}
    ELSE {Result(objs, gs, group_expressions, "miss", "ub_crash", NullExpr)}

(* A variant of MissBranch that allocates a group whatever the target. *)
MissBranchAlwaysNew(gexpr, target_group, enforced) ==
  LET idx == group_expressions \cup {gexpr}
      gs == AddNewGroup(groups)
      group_id == NewGroupId(groups)
  IN
  {Result(AddExpressionGroupID(objs, gs[group_id + 1], gexpr),
          [gs EXCEPT ![group_id + 1] = AddExpression(@, gexpr, enforced)],
          idx, "miss", "returned", gexpr)}

(* A variant of MissBranch that starts the target group's member lists    *)
(* afresh instead of appending to them.                                   *)
MissBranchReplace(gexpr, target_group, enforced) ==
  LET idx == group_expressions \cup {gexpr}
      gs == IF target_group = UNDEFINED_GROUP
              THEN AddNewGroup(groups) ELSE groups
      group_id == IF target_group = UNDEFINED_GROUP
                    THEN NewGroupId(groups) ELSE target_group
  IN
  IF InRange(gs, group_id)
    THEN {Result(AddExpressionGroupID(objs, gs[group_id + 1], gexpr),
                 [gs EXCEPT ![group_id + 1] =
                    AddExpression(Group(@.id), gexpr, enforced)],
                 idx, "miss", "returned", gexpr)}
    ELSE {Result(objs, gs, idx, "miss", "ub_crash", NullExpr)}

(* A variant of MissBranch that drops the enforced flag. *)
MissBranchNeverEnforced(gexpr, target_group, enforced) ==
  LET idx == group_expressions \cup {gexpr}
      gs == IF target_group = UNDEFINED_GROUP
              THEN AddNewGroup(groups) ELSE groups
      group_id == IF target_group = UNDEFINED_GROUP
                    THEN NewGroupId(groups) ELSE target_group
  IN
  IF InRange(gs, group_id)
    THEN {Result(AddExpressionGroupID(objs, gs[group_id + 1], gexpr),
                 [gs EXCEPT ![group_id + 1] =
                    AddExpression(@, gexpr, FALSE)],
                 idx, "miss", "returned", gexpr)}
    ELSE {Result(objs, gs, idx, "miss", "ub_crash", NullExpr)}

(* Memo::InsertExpression, the expression is new. *)
MissBranch(gexpr, target_group, enforced) ==
  LET idx == group_expressions \cup {gexpr}
      gs == IF target_group = UNDEFINED_GROUP
              THEN AddNewGroup(groups) ELSE groups
      group_id == IF target_group = UNDEFINED_GROUP
                    THEN NewGroupId(groups) ELSE target_group
  IN
  IF InRange(gs, group_id)
    THEN {Result(AddExpressionGroupID(objs, gs[group_id + 1], gexpr),
                 [gs EXCEPT ![group_id + 1] =
                    AddExpression(@, gexpr, enforced)],
                 idx, "miss", "returned", gexpr)}
    ELSE (* AddExpression runs on memory that holds no Group: the call    *)
         (* crashes, or it returns after writing whatever id that memory  *)
         (* held into the expression.                                     *)
         {Result(objs, gs, idx, "miss", "ub_crash", NullExpr)}
         \cup
         {Result(SetGroupID(objs, gexpr, garbage), gs, idx, "miss",
                 "ub_returned", gexpr) :
            garbage \in {UNDEFINED_GROUP, target_group}}

(* Memo::InsertExpression(gexpr, target_group, enforced) *)
InsertExpression(gexpr, target_group, enforced) ==
  IF objs[gexpr].op.type = "Leaf"
    THEN LeafBranch(gexpr, target_group)
    ELSE LET it == Find(group_expressions, objs, gexpr) IN
         IF it # NullExpr
           THEN HitBranch(gexpr, it, target_group)
           ELSE MissBranch(gexpr, target_group, enforced)

(* ---- the memo as a state machine ---- *)

(* The null unique_ptr<AbstractPlan>. *)
NullPlan ==
  [kind |-> "null", table |-> "", predicate |-> "", column_ids |-> <<>>,
   project_info |-> <<>>, schema |-> <<>>, children |-> <<>>]

(* OperatorToPlanTransformer::OperatorToPlanTransformer: every field is   *)
(* default-constructed.                                                   *)
TransformerInit ==
  /\ current_children = <<>>
  /\ left_columns = <<>>
  /\ right_columns = <<>>
  /\ output_columns = <<>>
  /\ output_plan = NullPlan
  /\ stack = <<>>
  /\ calls = <<>>

(* ---- IntsKey storage ---- *)

(* KeySize is the number of 64 bit words of the key. *)
KeySize == 1

key_size_byte == KeySize * 8

(* IntsKey::ZeroOut: memset(key_data, 0x00, key_size_byte).  The byte at  *)
(* offset o of the array is element o + 1 of the sequence.                *)
ZeroOut == [i \in 1 .. key_size_byte |-> 0]

(* No tuple has been handed to the key yet. *)
NoTuple == <<>>

NoKeyCall ==
  [op |-> "none", key |-> "", type |-> "", data |-> <<>>, offset |-> 0,
   outcome |-> "returned", ret |-> <<>>, cmp |-> 0, flag |-> FALSE]

(* IntsKey::IntsKey: the constructor zeroes the key. *)
KeyInit ==
  /\ key_data = ZeroOut
  /\ operands = [a |-> ZeroOut, b |-> ZeroOut]
  /\ source = [a |-> NoTuple, b |-> NoTuple]
  /\ key_schema = <<>>
  /\ kcall = NoKeyCall

NoCall ==
  [op |-> "none", gexpr |-> NullExpr, target_group |-> UNDEFINED_GROUP,
   enforced |-> FALSE, branch |-> "", outcome |-> "returned",
   ret |-> NullExpr]

(* An assertion failure ends the process, and nothing is defined about    *)
(* the program once it has run into undefined behaviour.                  *)
Running == call.outcome = "returned"

Init ==
  /\ objs = <<>>
  /\ groups = <<>>
  /\ group_expressions = {}
  /\ call = NoCall
  /\ TransformerInit
  /\ KeyInit

(* A caller builds a group expression. *)
NewGroupExpression ==
  /\ Running
  /\ Len(objs) < MaxObjs
  /\ \E shape \in Shapes : objs' = Append(objs, GroupExpression(shape))
  /\ call' = [NoCall EXCEPT !.op = "GroupExpression", !.ret = Len(objs) + 1]
  /\ UNCHANGED <<groups, group_expressions, tvars, kvars>>

Apply(r, c) ==
  /\ Len(r.groups) <= MaxGroups
  /\ objs' = r.objs
  /\ groups' = r.groups
  /\ group_expressions' = r.group_expressions
  /\ call' = [c EXCEPT !.branch = r.branch, !.outcome = r.outcome,
                       !.ret = r.ret]
  /\ UNCHANGED <<tvars, kvars>>

(* Memo::InsertExpression(gexpr, target_group, enforced) *)
CallInsertExpression ==
  /\ Running
  /\ \E gexpr \in 1 .. Len(objs), target_group \in TargetIds,
        enforced \in BOOLEAN :
       \E r \in InsertExpression(gexpr, target_group, enforced) :
            Apply(r, [NoCall EXCEPT !.op = "InsertExpression",
                                    !.gexpr = gexpr,
                                    !.target_group = target_group,
                                    !.enforced = enforced])

(* Memo::InsertExpression(gexpr, enforced) *)
CallInsertExpression2 ==
  /\ Running
  /\ \E gexpr \in 1 .. Len(objs), enforced \in BOOLEAN :
       \E r \in InsertExpression(gexpr, UNDEFINED_GROUP, enforced) :
         Apply(r, [NoCall EXCEPT !.op = "InsertExpression2",
                                 !.gexpr = gexpr,
                                 !.enforced = enforced])

(* Memo::AddNewGroup() called directly. *)
CallAddNewGroup ==
  /\ Running
  /\ Len(groups) < MaxGroups
  /\ groups' = AddNewGroup(groups)
  /\ call' = [NoCall EXCEPT !.op = "AddNewGroup", !.ret = NewGroupId(groups)]
  /\ UNCHANGED <<objs, group_expressions, tvars, kvars>>

(* Memo::GetGroupByID(id): a pointer to groups_[id]; outside the vector   *)
(* the call crashes or hands back a pointer to no group.                  *)
CallGetGroupByID ==
  /\ Running
  /\ \E id \in TargetIds :
       \E outcome \in IF InRange(groups, id) THEN {"returned"}
                      ELSE {"ub_crash", "ub_returned"} :
         call' = [NoCall EXCEPT !.op = "GetGroupByID", !.target_group = id,
                                !.outcome = outcome, !.ret = id]
  /\ UNCHANGED <<objs, groups, group_expressions, tvars, kvars>>

Next ==
  \/ NewGroupExpression
  \/ CallInsertExpression
  \/ CallInsertExpression2
  \/ CallAddNewGroup
  \/ CallGetGroupByID

Spec == Init /\ [][Next]_vars

(* The memo driven through the two-argument InsertExpression only: every  *)
(* insertion has UNDEFINED_GROUP for its target group.                    *)
NextDedup ==
  \/ NewGroupExpression
  \/ CallInsertExpression2

SpecDedup == Init /\ [][NextDedup]_vars

(* ---- the operator-to-plan transformer ---- *)

(* Optimizer columns: a table column or a derived (expression) column. *)
Column(name, kind) == [name |-> name, kind |-> kind]

ColA == Column("a", "table")
ColB == Column("b", "table")
ColC == Column("c", "table")
ColD == Column("d", "table")
ColE == Column("e", "expr")

(* OperatorExpression: an operator (kind and payload) and its ordered     *)
(* children.                                                              *)
OpExpr(type, table, columns, name, children) ==
  [type |-> type, table |-> table, columns |-> columns, name |-> name,
   children |-> children]

(* A scalar expression subtree with the given name. *)
Expr(name) == OpExpr("Expr", "", <<>>, name, <<>>)

PhysicalScan(table, columns, children) ==
  OpExpr("Scan", table, columns, "", children)

PhysicalFilter(child, predicate) ==
  OpExpr("Filter", "", <<>>, "", <<child, predicate>>)

PhysicalComputeExprs(child, targets) ==
  OpExpr("ComputeExprs", "", <<>>, "",
         <<child, OpExpr("Expr", "", <<>>, "targets", targets)>>)

PhysicalProject(child) == OpExpr("Project", "", <<>>, "", <<child>>)

Join(type, left, right, predicate) ==
  OpExpr(type, "", <<>>, "", <<left, right, predicate>>)

(* A target of a projection: a node whose first child is the expression. *)
Target(col) == OpExpr("Expr", "", <<>>, "target", <<Expr(col)>>)

JoinTypes ==
  {"InnerNLJoin", "LeftNLJoin", "RightNLJoin", "OuterNLJoin",
   "InnerHashJoin", "LeftHashJoin", "RightHashJoin", "OuterHashJoin"}

(* The operator kinds whose Visit has an empty body. *)
EmptyVisitTypes == {"Project"} \cup (JoinTypes \ {"InnerNLJoin"})

(* The trees handed to ConvertOpExpression. *)
ScanT == PhysicalScan("T", <<ColA, ColB, ColC>>, <<Expr("select"), Expr("p1")>>)
ScanBare == PhysicalScan("T", <<ColA, ColB, ColC>>, <<>>)
ScanDerived == PhysicalScan("T", <<ColA, ColE>>, <<Expr("select"), Expr("p1")>>)
ScanL == PhysicalScan("L", <<ColA, ColB>>, <<Expr("select"), Expr("p1")>>)
ScanR == PhysicalScan("R", <<ColC, ColD>>, <<Expr("select"), Expr("p1")>>)
FilterT == PhysicalFilter(ScanT, Expr("p2"))
ComputeT == PhysicalComputeExprs(FilterT, <<Target("b"), Target("c")>>)
ComputeBare == PhysicalComputeExprs(ScanT, <<Expr("b")>>)
ProjectT == PhysicalProject(ScanT)
FilterProject == PhysicalFilter(ProjectT, Expr("p2"))
FilterFilter == PhysicalFilter(FilterT, Expr("p3"))
FilterCompute == PhysicalFilter(ComputeT, Expr("p3"))
FilterBare == PhysicalFilter(ScanBare, Expr("p2"))
BadJoin == OpExpr("InnerNLJoin", "", <<>>, "", <<ScanL, ScanR>>)

Roots ==
  {ScanT, ScanBare, ScanDerived, FilterT, ComputeT, ComputeBare, ProjectT,
   FilterProject, FilterFilter, FilterCompute, FilterBare, BadJoin}
  \cup {Join(j, ScanL, ScanR, Expr("pj")) : j \in JoinTypes}

(* planner::AbstractPlan nodes. *)
Plan(kind, table, predicate, column_ids, project_info, schema, children) ==
  [kind |-> kind, table |-> table, predicate |-> predicate,
   column_ids |-> column_ids, project_info |-> project_info,
   schema |-> schema, children |-> children]

(* The null AbstractExpression and the null table pointer. *)
NullPredicate == "nullptr"
NullTable == "nullptr"

(* OperatorToPlanTransformer::ConvertToAbstractExpression: ignores its    *)
(* argument and returns nullptr.                                          *)
ConvertToAbstractExpression(op) == NullPredicate

(* TableColumn::ColumnIndexOid for each column of a scan. *)
ColumnIds(columns) == [i \in 1 .. Len(columns) |-> columns[i].name]

(* OperatorToPlanTransformer::BuildSchemaFromColumns *)
BuildSchemaFromColumns(columns) ==
  [i \in 1 .. Len(columns) |-> columns[i].name]

(* OperatorToPlanTransformer::BuildProjectInfoFromExprs: the target list  *)
(* pairs position col_id (from 0) with exprs[col_id].                     *)
BuildProjectInfoFromExprs(exprs) ==
  [i \in 1 .. Len(exprs) |-> [col_id |-> i - 1, expr |-> exprs[i]]]

(* OperatorToPlanTransformer::ConcatLeftAndRightColumns *)
ConcatLeftAndRightColumns == left_columns \o right_columns

(* new planner::SeqScanPlan(table, predicate, column_ids) *)
SeqScanPlan(table, predicate, column_ids) ==
  Plan("SeqScan", table, predicate, column_ids, <<>>, <<>>, <<>>)

(* new planner::ProjectionPlan(project_info, schema) *)
ProjectionPlan(project_info, schema) ==
  Plan("Projection", "", "", <<>>, project_info, schema, <<>>)

(* AbstractPlan::AddChild *)
AddChild(plan, child) == [plan EXCEPT !.children = Append(@, child)]

(* One activation of VisitOpExpression(op) together with the Visit it     *)
(* dispatches to: where it is, the locals prev_children, prev_left_cols   *)
(* and prev_right_cols, and Visit's local copy children.                  *)
Frame(op) ==
  [op |-> op, pc |-> "enter", prev_children |-> <<>>,
   prev_left_cols |-> <<>>, prev_right_cols |-> <<>>, children |-> <<>>]

Top == stack[Len(stack)]

LastCall == calls[Len(calls)]

(* A ConvertOpExpression call is under way. *)
Active == calls # <<>> /\ LastCall.outcome = "active" /\ stack # <<>>

SetTop(f) == [stack EXCEPT ![Len(stack)] = f]

(* The call ends in an assertion failure or a crash: nothing runs after. *)
Abort(outcome) ==
  calls' = [calls EXCEPT ![Len(calls)].outcome = outcome]

(* The call ran into undefined behaviour and goes on. *)
Taint(ub) ==
  calls' = IF ub THEN [calls EXCEPT ![Len(calls)].ub = TRUE] ELSE calls

MemoUnchanged == UNCHANGED <<objs, groups, group_expressions, call, kvars>>

(* ConvertOpExpression(plan) is called: it calls VisitOpExpression(plan). *)
CallConvertOpExpression ==
  /\ stack = <<>>
  /\ IF calls = <<>> THEN TRUE ELSE LastCall.outcome = "returned"
  /\ Len(calls) < MaxCalls
  /\ \E plan \in Roots :
       /\ calls' = Append(calls, [plan |-> plan, outcome |-> "active",
                                  ub |-> FALSE, ret |-> NullPlan,
                                  output_columns |-> <<>>])
       /\ stack' = <<Frame(plan)>>
  /\ UNCHANGED <<current_children, left_columns, right_columns,
                 output_columns, output_plan>>
  /\ MemoUnchanged

(* VisitOpExpression, the copies of the context into the locals. *)
VisitOpExpressionSave(f) ==
  [f EXCEPT !.prev_children = current_children,
            !.prev_left_cols = left_columns,
            !.prev_right_cols = right_columns,
            !.pc = "accept"]

(* VisitOpExpression up to the dispatch op->Op().Accept(this). *)
VisitOpExpressionEnter ==
  /\ Active
  /\ Top.pc = "enter"
  /\ stack' = SetTop(VisitOpExpressionSave(Top))
  /\ current_children' = Top.op.children
  /\ UNCHANGED <<left_columns, right_columns, output_columns, output_plan,
                 calls>>
  /\ MemoUnchanged

(* Visit(PhysicalScan): the dynamic_cast of every column must     *)
(* succeed; children[1] is read whatever the number of children.          *)
VisitPhysicalScan ==
  /\ Active
  /\ Top.pc = "accept"
  /\ Top.op.type = "Scan"
  /\ LET op == Top.op
         children == current_children
     IN
     IF \E i \in 1 .. Len(op.columns) : op.columns[i].kind # "table"
       THEN /\ Abort("assert")
            /\ UNCHANGED <<current_children, left_columns, right_columns,
                           output_columns, output_plan, stack>>
       ELSE /\ left_columns' = op.columns
            /\ output_columns' = op.columns
            /\ UNCHANGED <<current_children, right_columns>>
            /\ \/ /\ Len(children) < 2
                  /\ Abort("ub_crash")
                  /\ UNCHANGED <<output_plan, stack>>
               \/ /\ Taint(Len(children) < 2)
                  /\ output_plan' =
                       SeqScanPlan(op.table,
                                   ConvertToAbstractExpression(
                                     IF Len(children) < 2 THEN Expr("garbage")
                                     ELSE children[2]),
                                   ColumnIds(op.columns))
                  /\ stack' = SetTop([Top EXCEPT !.pc = "restore"])
  /\ MemoUnchanged

(* Visit of an operator kind whose body is empty: Project and the joins   *)
(* other than the inner nested-loop join.                                 *)
VisitEmpty ==
  /\ Active
  /\ Top.pc = "accept"
  /\ Top.op.type \in EmptyVisitTypes
  /\ stack' = SetTop([Top EXCEPT !.pc = "restore"])
  /\ UNCHANGED <<current_children, left_columns, right_columns,
                 output_columns, output_plan, calls>>
  /\ MemoUnchanged

(* Visit(PhysicalInnerNLJoin): the assert on the number of        *)
(* children; the rest of the body is commented out.                       *)
VisitPhysicalInnerNLJoin ==
  /\ Active
  /\ Top.pc = "accept"
  /\ Top.op.type = "InnerNLJoin"
  /\ IF Len(current_children) # 3
       THEN Abort("assert") /\ UNCHANGED stack
       ELSE /\ stack' = SetTop([Top EXCEPT !.pc = "restore",
                                           !.children = current_children])
            /\ UNCHANGED calls
  /\ UNCHANGED <<current_children, left_columns, right_columns,
                 output_columns, output_plan>>
  /\ MemoUnchanged

(* The start of a Visit with one operator child: the copy of             *)
(* current_children, and the nested VisitOpExpression(children[0]).       *)
PushChild ==
  Append(SetTop([Top EXCEPT !.pc = "after_child",
                            !.children = current_children]),
         Frame(current_children[1]))

(* Visit(PhysicalComputeExprs) up to the nested visit of children[0]. *)
VisitPhysicalComputeExprsBegin ==
  /\ Active
  /\ Top.pc = "accept"
  /\ Top.op.type = "ComputeExprs"
  /\ IF Len(current_children) # 2
       THEN Abort("assert") /\ UNCHANGED stack
       ELSE stack' = PushChild /\ UNCHANGED calls
  /\ UNCHANGED <<current_children, left_columns, right_columns,
                 output_columns, output_plan>>
  /\ MemoUnchanged

(* Visit(PhysicalFilter) up to the nested visit of children[0]. *)
VisitPhysicalFilterBegin ==
  /\ Active
  /\ Top.pc = "accept"
  /\ Top.op.type = "Filter"
  /\ IF Len(current_children) # 2
       THEN Abort("assert") /\ UNCHANGED stack
       ELSE stack' = PushChild /\ UNCHANGED calls
  /\ UNCHANGED <<current_children, left_columns, right_columns,
                 output_columns, output_plan>>
  /\ MemoUnchanged

(* What the rest of a Visit leaves in the fields it writes. *)
Effect(left, out, plan) ==
  [left_columns |-> left, output_columns |-> out, output_plan |-> plan]

(* Visit(PhysicalComputeExprs) after the nested visit: child_plan *)
(* takes output_plan, left_columns takes the child's output columns, the  *)
(* expression of every target is converted, proj_columns stays empty.     *)
VisitPhysicalComputeExprsRest(children) ==
  LET child_plan == output_plan
      targets == children[2].children
      exprs == [i \in 1 .. Len(targets) |->
                  ConvertToAbstractExpression(
                    IF targets[i].children = <<>> THEN Expr("garbage")
                    ELSE targets[i].children[1])]
      proj_columns == <<>>
  IN Effect(output_columns, proj_columns,
            AddChild(ProjectionPlan(BuildProjectInfoFromExprs(exprs),
                                    BuildSchemaFromColumns(proj_columns)),
                     child_plan))

(* op_expr->Children()[0] of a target without children is out of range. *)
TargetOutOfRange(children) ==
  \E i \in 1 .. Len(children[2].children) :
    children[2].children[i].children = <<>>

VisitPhysicalComputeExprsEnd ==
  /\ Active
  /\ Top.pc = "after_child"
  /\ Top.op.type = "ComputeExprs"
  /\ \/ /\ TargetOutOfRange(Top.children)
        /\ Abort("ub_crash")
        /\ left_columns' = output_columns
        /\ UNCHANGED <<output_columns, output_plan, stack>>
     \/ /\ Taint(TargetOutOfRange(Top.children))
        /\ LET e == VisitPhysicalComputeExprsRest(Top.children) IN
           /\ left_columns' = e.left_columns
           /\ output_columns' = e.output_columns
           /\ output_plan' = e.output_plan
        /\ stack' = SetTop([Top EXCEPT !.pc = "restore"])
  /\ UNCHANGED <<current_children, right_columns>>
  /\ MemoUnchanged

(* A variant of VisitPhysicalFilterRest that gives the filter node's      *)
(* (empty) column list as the output columns.                             *)
VisitPhysicalFilterRestNoColumns(children) ==
  LET child_plan == output_plan
      predicate == ConvertToAbstractExpression(children[2])
  IN Effect(output_columns, <<>>,
            AddChild(SeqScanPlan(NullTable, predicate, <<>>), child_plan))

(* Visit(PhysicalFilter) after the nested visit: the filter is a  *)
(* SeqScanPlan without table and columns, over the lowered child.         *)
VisitPhysicalFilterRest(children) ==
  LET child_plan == output_plan
      predicate == ConvertToAbstractExpression(children[2])
  IN Effect(output_columns, output_columns,
            AddChild(SeqScanPlan(NullTable, predicate, <<>>), child_plan))

VisitPhysicalFilterEnd ==
  /\ Active
  /\ Top.pc = "after_child"
  /\ Top.op.type = "Filter"
  /\ LET e == VisitPhysicalFilterRest(Top.children) IN
     /\ left_columns' = e.left_columns
     /\ output_columns' = e.output_columns
     /\ output_plan' = e.output_plan
  /\ stack' = SetTop([Top EXCEPT !.pc = "restore"])
  /\ UNCHANGED <<current_children, right_columns, calls>>
  /\ MemoUnchanged

(* A variant of VisitOpExpressionRestore that leaves left_columns as the  *)
(* nested visit set it.                                                   *)
VisitOpExpressionRestoreNoLeft(f) ==
  [current_children |-> f.prev_children,
   left_columns |-> left_columns,
   right_columns |-> f.prev_right_cols]

(* VisitOpExpression after the dispatch: the context is copied back. *)
VisitOpExpressionRestore(f) ==
  [current_children |-> f.prev_children,
   left_columns |-> f.prev_left_cols,
   right_columns |-> f.prev_right_cols]

VisitOpExpressionReturn ==
  /\ Active
  /\ Top.pc = "restore"
  /\ LET c == VisitOpExpressionRestore(Top) IN
     /\ current_children' = c.current_children
     /\ left_columns' = c.left_columns
     /\ right_columns' = c.right_columns
  /\ stack' = SubSeq(stack, 1, Len(stack) - 1)
  /\ UNCHANGED <<output_columns, output_plan, calls>>
  /\ MemoUnchanged

(* ConvertOpExpression returns output_plan.get(). *)
ConvertOpExpressionReturn ==
  /\ calls # <<>>
  /\ LastCall.outcome = "active"
  /\ stack = <<>>
  /\ calls' = [calls EXCEPT ![Len(calls)] =
                 [LastCall EXCEPT !.outcome = IF LastCall.ub
                                                THEN "ub_returned"
                                                ELSE "returned",
                                  !.ret = output_plan,
                                  !.output_columns = output_columns]]
  /\ UNCHANGED <<current_children, left_columns, right_columns,
                 output_columns, output_plan, stack>>
  /\ MemoUnchanged

NextT ==
  \/ CallConvertOpExpression
  \/ VisitOpExpressionEnter
  \/ VisitPhysicalScan
  \/ VisitEmpty
  \/ VisitPhysicalInnerNLJoin
  \/ VisitPhysicalComputeExprsBegin
  \/ VisitPhysicalComputeExprsEnd
  \/ VisitPhysicalFilterBegin
  \/ VisitPhysicalFilterEnd
  \/ VisitOpExpressionReturn
  \/ ConvertOpExpressionReturn

SpecT == Init /\ [][NextT]_vars

(* ---- IntsKey (src/include/index/ints_key.h) ---- *)

(* An integer of w bytes is the sequence of its w base-256 digits, most   *)
(* significant first; signed integers are in two's complement.  Widths up *)
(* to 64 bits are kept exactly this way.                                  *)
IntTypes == {"int8_t", "int16_t", "int32_t", "int64_t"}
UnsignedIntTypes == {"uint8_t", "uint16_t", "uint32_t", "uint64_t"}

(* sizeof(IntType) *)
SizeOf(type) ==
  CASE type \in {"int8_t", "uint8_t"} -> 1
    [] type \in {"int16_t", "uint16_t"} -> 2
    [] type \in {"int32_t", "uint32_t"} -> 4
    [] type \in {"int64_t", "uint64_t"} -> 8

Reverse(seq) == [i \in 1 .. Len(seq) |-> seq[Len(seq) + 1 - i]]

(* The bytes of an integer in the memory of the little-endian host, from  *)
(* the lowest address up, and the integer that given bytes hold.          *)
HostBytes(data) == Reverse(data)
FromHostBytes(bytes) == Reverse(bytes)

(* htobe16 / htobe32 / htobe64 on the little-endian host swap the bytes   *)
(* of the value; the one-byte overloads return the value.                 *)
ToBigEndian(data) == Reverse(data)

(* be16toh / be32toh / be64toh *)
ToHostEndian(data) == Reverse(data)

(* IntsKey::SignFlip: data ^ mask, the mask having the highest bit of the *)
(* type set and no other.                                                 *)
SignFlip(data) == [data EXCEPT ![1] = (@ + 128) % 256]

(* memcpy(key_data + offset, &value, sizeof(value)) *)
Memcpy(kd, offset, bytes) ==
  [i \in 1 .. Len(kd) |->
     IF i > offset /\ i <= offset + Len(bytes) THEN bytes[i - offset]
     ELSE kd[i]]

(* A variant of AddInteger that stores the integer without flipping its   *)
(* sign bit.                                                              *)
AddIntegerNoFlip(kd, data, offset) ==
  LET big_endian == ToBigEndian(data)
  IN Memcpy(kd, offset, HostBytes(big_endian))

(* IntsKey::AddInteger<IntType>(data, offset) on the array kd. *)
AddInteger(kd, data, offset) ==
  LET sign_flipped == SignFlip(data)
      big_endian == ToBigEndian(sign_flipped)
  IN Memcpy(kd, offset, HostBytes(big_endian))

(* IntsKey::AddUnsignedInteger<IntType>(data, offset) *)
AddUnsignedInteger(kd, data, offset) ==
  LET big_endian == ToBigEndian(data)
  IN Memcpy(kd, offset, HostBytes(big_endian))

(* IntsKey::GetInteger<IntType>(offset): *ptr is read from the bytes at   *)
(* key_data + offset.                                                     *)
GetInteger(kd, type, offset) ==
  LET ptr == FromHostBytes(SubSeq(kd, offset + 1, offset + SizeOf(type)))
      host_endian == ToHostEndian(ptr)
  IN SignFlip(host_endian)

(* IntsKey::GetUnsignedInteger<IntType>(offset) *)
GetUnsignedInteger(kd, type, offset) ==
  LET ptr == FromHostBytes(SubSeq(kd, offset + 1, offset + SizeOf(type)))
      host_endian == ToHostEndian(ptr)
  IN host_endian

(* The first position at which two sequences of one length differ, 0 if   *)
(* there is none.                                                         *)
FirstDiff(x, y) ==
  IF x = y THEN 0
  ELSE CHOOSE i \in 1 .. Len(x) :
         x[i] # y[i] /\ \A j \in 1 .. i - 1 : x[j] = y[j]

(* IntsKey::Compare: memcmp over the two arrays; its sign is that of the  *)
(* difference of the first pair of bytes that differ.                     *)
Compare(a, b) ==
  LET i == FirstDiff(a, b) IN IF i = 0 THEN 0 ELSE a[i] - b[i]

(* IntsKey::LessThan *)
LessThan(a, b) == Compare(a, b) < 0

(* IntsKey::Equals *)
Equals(a, b) == Compare(a, b) = 0

(* The integer column types SetFromColumn handles, and the integer type   *)
(* it reads each as.                                                      *)
ColumnTypes == {"TINYINT", "SMALLINT", "INTEGER", "BIGINT"}

ColumnIntType(column_type) ==
  CASE column_type = "BIGINT" -> "int64_t"
    [] column_type = "INTEGER" -> "int32_t"
    [] column_type = "SMALLINT" -> "int16_t"
    [] column_type = "TINYINT" -> "int8_t"

(* SetFromColumn ends in "return;" although it is declared to return the  *)
(* next offset: the value its caller receives is indeterminate.  It may   *)
(* be the offset the function computed, zero, or a value past the key.    *)
IndeterminateOffsets(computed) == {computed, 0, key_size_byte + 1}

(* IntsKey::SetFromColumn: the array afterwards and the value the caller  *)
(* takes for the next offset.                                             *)
SetFromColumn(kd, column_type, data, offset) ==
  {[key_data |-> AddInteger(kd, data, offset), offset |-> next] :
     next \in IndeterminateOffsets(offset + SizeOf(ColumnIntType(column_type)))}

(* The loop of IntsKey::SetFromKey from column column_id on: the arrays   *)
(* it can leave and whether PL_ASSERT(offset <= key_size_byte) held.      *)
RECURSIVE SetFromColumns(_, _, _, _, _)
SetFromColumns(kd, schema, tuple, column_id, offset) ==
  IF column_id > Len(schema)
    THEN {[key_data |-> kd, outcome |-> "returned"]}
    ELSE UNION
      {IF r.offset <= key_size_byte
         THEN SetFromColumns(r.key_data, schema, tuple, column_id + 1,
                             r.offset)
         ELSE {[key_data |-> r.key_data, outcome |-> "assert"]} :
       r \in SetFromColumn(kd, schema[column_id], tuple[column_id], offset)}

(* IntsKey::SetFromKey(tuple), the tuple having the given schema. *)
SetFromKey(schema, tuple) == SetFromColumns(ZeroOut, schema, tuple, 1, 0)

(* ---- IntsKey: inputs ---- *)

(* The longest key schema that is tried. *)
MaxColumns == 2

(* The w-byte integer with the small value n, and the least, the greatest *)
(* and a power of 256 of that width.                                      *)
FromInt(w, n) ==
  [i \in 1 .. w |->
     IF i = w THEN (n + 256) % 256 ELSE IF n < 0 THEN 255 ELSE 0]

MinOf(w) == [i \in 1 .. w |-> IF i = 1 THEN 128 ELSE 0]

MaxOf(w) == [i \in 1 .. w |-> IF i = 1 THEN 127 ELSE 255]

HighOne(w) == [i \in 1 .. w |-> IF i = 1 THEN 1 ELSE 0]

(* Values handed to AddInteger and AddUnsignedInteger. *)
Values(w) ==
  {FromInt(w, n) : n \in {-1, 0, 1}} \cup {MinOf(w), MaxOf(w), HighOne(w)}

(* Values of the columns of a tuple. *)
ColumnValues(w) == {FromInt(w, n) : n \in {-1, 0, 1}}

(* What a key may hold before an integer is added to it. *)
InitialKeys ==
  {ZeroOut,
   [i \in 1 .. key_size_byte |-> 255],
   [i \in 1 .. key_size_byte |-> (17 * i) % 256]}

(* The bytes a key schema takes. *)
RECURSIVE SchemaBytes(_)
SchemaBytes(schema) ==
  IF schema = <<>> THEN 0
  ELSE SizeOf(ColumnIntType(Head(schema))) + SchemaBytes(Tail(schema))

(* Key schemas that fit the key. *)
Schemas ==
  {schema \in UNION {[1 .. n -> ColumnTypes] : n \in 1 .. MaxColumns} :
     SchemaBytes(schema) <= key_size_byte}

(* The tuples of a schema. *)
Tuples(schema) ==
  {tuple \in [1 .. Len(schema) ->
                UNION {ColumnValues(SizeOf(ColumnIntType(t))) :
                         t \in ColumnTypes}] :
     \A i \in 1 .. Len(schema) :
       Len(tuple[i]) = SizeOf(ColumnIntType(schema[i]))}

(* ---- IntsKey as a state machine ---- *)

OthersUnchanged == UNCHANGED <<objs, groups, group_expressions, call, tvars>>

(* A failed PL_ASSERT ends the process. *)
KeyRunning == kcall.outcome = "returned"

(* One key, holding any of InitialKeys, to which integers are added and   *)
(* from which they are read.                                              *)
InitKey ==
  /\ objs = <<>>
  /\ groups = <<>>
  /\ group_expressions = {}
  /\ call = NoCall
  /\ TransformerInit
  /\ key_data \in InitialKeys
  /\ operands = [a |-> ZeroOut, b |-> ZeroOut]
  /\ source = [a |-> NoTuple, b |-> NoTuple]
  /\ key_schema = <<>>
  /\ kcall = NoKeyCall

(* key.AddInteger<type>(data, offset), once on the key as it was drawn    *)
(* or as ZeroOut left it, at any offset that leaves room for the integer. *)
CallAddInteger ==
  /\ kcall.op \in {"none", "ZeroOut"}
  /\ \E type \in IntTypes :
       \E data \in Values(SizeOf(type)),
          offset \in 0 .. key_size_byte - SizeOf(type) :
         /\ key_data' = AddInteger(key_data, data, offset)
         /\ kcall' = [NoKeyCall EXCEPT !.op = "AddInteger", !.type = type,
                                       !.data = data, !.offset = offset]
  /\ UNCHANGED <<operands, source, key_schema>>
  /\ OthersUnchanged

(* key.AddUnsignedInteger<type>(data, offset) *)
CallAddUnsignedInteger ==
  /\ kcall.op \in {"none", "ZeroOut"}
  /\ \E type \in UnsignedIntTypes :
       \E data \in Values(SizeOf(type)),
          offset \in 0 .. key_size_byte - SizeOf(type) :
         /\ key_data' = AddUnsignedInteger(key_data, data, offset)
         /\ kcall' = [NoKeyCall EXCEPT !.op = "AddUnsignedInteger",
                                       !.type = type, !.data = data,
                                       !.offset = offset]
  /\ UNCHANGED <<operands, source, key_schema>>
  /\ OthersUnchanged

(* key.GetInteger<type>(offset) *)
CallGetInteger ==
  /\ \E type \in IntTypes :
       \E offset \in 0 .. key_size_byte - SizeOf(type) :
         kcall' = [NoKeyCall EXCEPT !.op = "GetInteger", !.type = type,
                                    !.offset = offset,
                                    !.ret = GetInteger(key_data, type,
                                                       offset)]
  /\ UNCHANGED <<key_data, operands, source, key_schema>>
  /\ OthersUnchanged

(* key.GetUnsignedInteger<type>(offset) *)
CallGetUnsignedInteger ==
  /\ \E type \in UnsignedIntTypes :
       \E offset \in 0 .. key_size_byte - SizeOf(type) :
         kcall' = [NoKeyCall EXCEPT !.op = "GetUnsignedInteger",
                                    !.type = type, !.offset = offset,
                                    !.ret = GetUnsignedInteger(key_data,
                                                               type, offset)]
  /\ UNCHANGED <<key_data, operands, source, key_schema>>
  /\ OthersUnchanged

(* key.ZeroOut() *)
CallZeroOut ==
  /\ kcall.op \notin {"none", "ZeroOut"}
  /\ key_data' = ZeroOut
  /\ kcall' = [NoKeyCall EXCEPT !.op = "ZeroOut"]
  /\ UNCHANGED <<operands, source, key_schema>>
  /\ OthersUnchanged

NextKey ==
  \/ CallAddInteger
  \/ CallAddUnsignedInteger
  \/ CallGetInteger
  \/ CallGetUnsignedInteger
  \/ CallZeroOut

SpecKey == InitKey /\ [][NextKey]_vars

(* Two keys that are set from tuples of one schema and compared. *)
InitCompare ==
  /\ objs = <<>>
  /\ groups = <<>>
  /\ group_expressions = {}
  /\ call = NoCall
  /\ TransformerInit
  /\ key_data = ZeroOut
  /\ operands = [a |-> ZeroOut, b |-> ZeroOut]
  /\ source = [a |-> NoTuple, b |-> NoTuple]
  /\ key_schema \in Schemas
  /\ kcall = NoKeyCall

(* operand.SetFromKey(tuple) *)
CallSetFromKey ==
  /\ KeyRunning
  /\ \E k \in {"a", "b"} :
       \E tuple \in Tuples(key_schema) :
         \E r \in SetFromKey(key_schema, tuple) :
           /\ operands' = [operands EXCEPT ![k] = r.key_data]
           /\ source' = [source EXCEPT ![k] = tuple]
           /\ kcall' = [NoKeyCall EXCEPT !.op = "SetFromKey", !.key = k,
                                         !.outcome = r.outcome]
  /\ UNCHANGED <<key_data, key_schema>>
  /\ OthersUnchanged

(* IntsKey::Compare(a, b) *)
CallCompare ==
  /\ KeyRunning
  /\ kcall' = [NoKeyCall EXCEPT !.op = "Compare",
                                !.cmp = Compare(operands.a, operands.b)]
  /\ UNCHANGED <<key_data, operands, source, key_schema>>
  /\ OthersUnchanged

(* IntsKey::LessThan(a, b) *)
CallLessThan ==
  /\ KeyRunning
  /\ kcall' = [NoKeyCall EXCEPT !.op = "LessThan",
                                !.flag = LessThan(operands.a, operands.b)]
  /\ UNCHANGED <<key_data, operands, source, key_schema>>
  /\ OthersUnchanged

(* IntsKey::Equals(a, b) *)
CallEquals ==
  /\ KeyRunning
  /\ kcall' = [NoKeyCall EXCEPT !.op = "Equals",
                                !.flag = Equals(operands.a, operands.b)]
  /\ UNCHANGED <<key_data, operands, source, key_schema>>
  /\ OthersUnchanged

NextCompare ==
  \/ CallSetFromKey
  \/ CallCompare
  \/ CallLessThan
  \/ CallEquals

SpecCompare == InitCompare /\ [][NextCompare]_vars

(* ---- vocabulary of the properties ---- *)

(* The call that produced call record c is an insertion. *)
IsInsert(c) == c.op \in {"InsertExpression", "InsertExpression2"}

(* The objects of the index that are structurally equal to object g. *)
EqualsInIndex(g) == {x \in group_expressions : StructEq(objs[x], objs[g])}

(* The members of a group: alternatives and enforcers. *)
Range(seq) == {seq[i] : i \in 1 .. Len(seq)}

Members(g) == Range(g.expressions) \cup Range(g.enforced_exprs)

(* The step is an insertion of a Leaf, of an expression the index already *)
(* holds (hit), of one it does not hold (miss): decided on the state      *)
(* before the call.                                                       *)
LeafStep ==
  /\ IsInsert(call')
  /\ objs[call'.gexpr].op.type = "Leaf"

HitStep ==
  /\ IsInsert(call')
  /\ objs[call'.gexpr].op.type # "Leaf"
  /\ EqualsInIndex(call'.gexpr) # {}

MissStep ==
  /\ IsInsert(call')
  /\ objs[call'.gexpr].op.type # "Leaf"
  /\ EqualsInIndex(call'.gexpr) = {}

(* C1: inserting a non-Leaf expression structurally equal to one already  *)
(* in the memo leaves the number of groups and the number of index        *)
(* entries unchanged, and when the call returns the new expression has    *)
(* the group id of the existing one.                                      *)
C1_DedupIdempotence ==
  [][HitStep =>
       /\ Len(groups') = Len(groups)
       /\ Cardinality(group_expressions') = Cardinality(group_expressions)
       /\ call'.outcome = "returned" =>
            \A x \in EqualsInIndex(call'.gexpr) :
              objs'[call'.gexpr].group_id = objs[x].group_id]_vars

C1_Witness ==
  /\ IsInsert(call)
  /\ call.outcome = "returned"
  /\ call.gexpr \notin group_expressions
  /\ \E x \in group_expressions :
       /\ StructEq(objs[x], objs[call.gexpr])
       /\ objs[x].group_id = objs[call.gexpr].group_id
       /\ objs[x].group_id # UNDEFINED_GROUP

(* C2: on a hit the call returns the object stored in the index, which is *)
(* not the caller's object unless that is the stored one; the index and   *)
(* every group stay as they were, so the caller's object is added         *)
(* nowhere and no group is created.                                       *)
C2_HitReturnsRepresentative ==
  [][HitStep =>
       /\ group_expressions' = group_expressions
       /\ groups' = groups
       /\ call'.outcome = "returned" =>
            /\ call'.ret \in EqualsInIndex(call'.gexpr)
            /\ call'.gexpr \notin group_expressions =>
                 call'.ret # call'.gexpr]_vars

C2_Witness ==
  /\ IsInsert(call)
  /\ call.outcome = "returned"
  /\ call.ret \in group_expressions
  /\ call.ret # call.gexpr
  /\ StructEq(objs[call.ret], objs[call.gexpr])
  /\ call.gexpr \notin group_expressions
  /\ \A i \in 1 .. Len(groups) : call.gexpr \notin Members(groups[i])

(* C3: a hit with an explicit target group that differs from the group of *)
(* the stored expression ends in the assertion failure.                   *)
C3_ConflictingTargetFatal ==
  [][( /\ HitStep
       /\ call'.target_group # UNDEFINED_GROUP
       /\ \E x \in EqualsInIndex(call'.gexpr) :
            objs[x].group_id # call'.target_group )
     => call'.outcome = "assert"]_vars

C3_Witness ==
  /\ IsInsert(call)
  /\ call.outcome = "assert"
  /\ call.target_group # UNDEFINED_GROUP
  /\ \E x \in group_expressions :
       /\ StructEq(objs[x], objs[call.gexpr])
       /\ objs[x].group_id # call.target_group
       /\ InRange(groups, call.target_group)

(* C4: inserting a Leaf allocates no group and adds nothing to the index  *)
(* or to a group, and when the call returns the expression's group id is  *)
(* the leaf's origin_group.                                               *)
C4_LeafPassThrough ==
  [][LeafStep =>
       /\ groups' = groups
       /\ group_expressions' = group_expressions
       /\ call'.outcome = "returned" =>
            objs'[call'.gexpr].group_id =
              objs[call'.gexpr].op.origin_group]_vars

C4_Witness ==
  /\ IsInsert(call)
  /\ call.outcome = "returned"
  /\ objs[call.gexpr].op.type = "Leaf"
  /\ objs[call.gexpr].group_id = objs[call.gexpr].op.origin_group
  /\ group_expressions # {}

(* C5: inserting a Leaf returns the expression object that was passed in. *)
C5_LeafReturnsSelf ==
  ( /\ IsInsert(call)
    /\ objs[call.gexpr].op.type = "Leaf"
    /\ call.outcome = "returned" )
  => (call.ret = call.gexpr /\ call.ret # NullExpr)

(* C6: the group stored at index i has id i; every allocation, by         *)
(* AddNewGroup or by a miss with UNDEFINED_GROUP, adds exactly one group  *)
(* whose id is the group count before the call and returns that id, and   *)
(* no other step changes the group count, so the Nth allocation returns   *)
(* N-1.                                                                   *)
DenseIds == \A i \in 1 .. Len(groups) : groups[i].id = i - 1

AllocStep ==
  \/ call'.op = "AddNewGroup"
  \/ MissStep /\ call'.target_group = UNDEFINED_GROUP

C6_MonotonicDenseIds ==
  /\ []DenseIds
  /\ [][/\ AllocStep =>
             /\ Len(groups') = Len(groups) + 1
             /\ groups'[Len(groups')].id = Len(groups)
             /\ call'.op = "AddNewGroup" => call'.ret = Len(groups)
        /\ ~AllocStep => Len(groups') = Len(groups)]_vars

C6_Witness ==
  /\ call.op = "AddNewGroup"
  /\ call.ret = 1
  /\ Len(groups) = 2
  /\ groups[2].id = 1
  /\ group_expressions # {}

(* C7: a miss with UNDEFINED_GROUP appends exactly one group, whose only  *)
(* member is the expression, adds the expression to the index, sets its   *)
(* group id to the new group's id and returns the caller's expression.    *)
C7_MissNewGroup ==
  [][(MissStep /\ call'.target_group = UNDEFINED_GROUP) =>
       /\ call'.outcome = "returned"
       /\ call'.ret = call'.gexpr
       /\ Len(groups') = Len(groups) + 1
       /\ SubSeq(groups', 1, Len(groups)) = groups
       /\ Members(groups'[Len(groups')]) = {call'.gexpr}
       /\ Len(groups'[Len(groups')].expressions)
            + Len(groups'[Len(groups')].enforced_exprs) = 1
       /\ group_expressions' = group_expressions \cup {call'.gexpr}
       /\ objs'[call'.gexpr].group_id = groups'[Len(groups')].id
       /\ objs'[call'.gexpr].group_id = Len(groups)]_vars

C7_Witness ==
  /\ IsInsert(call)
  /\ call.target_group = UNDEFINED_GROUP
  /\ call.outcome = "returned"
  /\ call.ret = call.gexpr
  /\ call.gexpr \in group_expressions
  /\ Len(groups) = 2
  /\ Members(groups[2]) = {call.gexpr}
  /\ objs[call.gexpr].group_id = 1

(* C8: a miss with an explicit allocated target group T adds the          *)
(* expression to group T only, sets its group id to T, keeps the group    *)
(* count and every other group, and returns the caller's expression.      *)
C8_MissExplicitTarget ==
  [][( /\ MissStep
       /\ call'.target_group # UNDEFINED_GROUP
       /\ InRange(groups, call'.target_group) )
     => LET T == call'.target_group IN
        /\ call'.outcome = "returned"
        /\ call'.ret = call'.gexpr
        /\ Len(groups') = Len(groups)
        /\ \A i \in 1 .. Len(groups) : i # T + 1 => groups'[i] = groups[i]
        /\ groups'[T + 1].id = groups[T + 1].id
        /\ Members(groups'[T + 1]) = Members(groups[T + 1]) \cup {call'.gexpr}
        /\ Len(groups'[T + 1].expressions) + Len(groups'[T + 1].enforced_exprs)
             = Len(groups[T + 1].expressions)
               + Len(groups[T + 1].enforced_exprs) + 1
        /\ objs'[call'.gexpr].group_id = T]_vars

C8_Witness ==
  /\ IsInsert(call)
  /\ call.target_group = 1
  /\ call.outcome = "returned"
  /\ call.ret = call.gexpr
  /\ Len(groups) = 2
  /\ Members(groups[1]) # {}
  /\ Members(groups[2]) = {call.gexpr}
  /\ objs[call.gexpr].group_id = 1

(* C9: whenever a call has returned, every expression of the index is a   *)
(* member of exactly one group and every member of a group is in the      *)
(* index.                                                                 *)
C9_IndexGroupConsistency ==
  call.outcome \in {"returned", "ub_returned"} =>
    /\ \A x \in group_expressions :
         Cardinality({i \in 1 .. Len(groups) : x \in Members(groups[i])}) = 1
    /\ \A i \in 1 .. Len(groups) : Members(groups[i]) \subseteq group_expressions

(* C10: a call that reaches GetGroupByID with an id that was never        *)
(* allocated, directly or from a miss with an explicit target group,      *)
(* does not return.                                                       *)
C10_OutOfRangeSignalled ==
  ( /\ ~InRange(groups, call.target_group)
    /\ \/ call.op = "GetGroupByID"
       \/ /\ IsInsert(call)
          /\ call.branch = "miss"
          /\ call.target_group # UNDEFINED_GROUP )
  => call.outcome \notin {"returned", "ub_returned"}

(* C11: inserting a Leaf with an explicit target group that differs from  *)
(* the leaf's origin_group ends in the assertion failure, and the call    *)
(* leaves the expression's group id as it was.                            *)
C11_LeafTargetMismatchFatal ==
  [][( /\ LeafStep
       /\ call'.target_group # UNDEFINED_GROUP
       /\ call'.target_group # objs[call'.gexpr].op.origin_group )
     => /\ call'.outcome = "assert"
        /\ objs'[call'.gexpr].group_id = objs[call'.gexpr].group_id]_vars

C11_Witness ==
  /\ IsInsert(call)
  /\ call.outcome = "assert"
  /\ objs[call.gexpr].op.type = "Leaf"
  /\ call.target_group # UNDEFINED_GROUP
  /\ call.target_group # objs[call.gexpr].op.origin_group
  /\ objs[call.gexpr].group_id = UNDEFINED_GROUP

(* C12: no step removes a group, removes a member from a group or removes *)
(* an entry from the index.                                               *)
C12_MonotonicGrowth ==
  [][/\ Len(groups') >= Len(groups)
     /\ \A i \in 1 .. Len(groups) :
          /\ groups'[i].id = groups[i].id
          /\ Range(groups[i].expressions) \subseteq Range(groups'[i].expressions)
          /\ Range(groups[i].enforced_exprs)
               \subseteq Range(groups'[i].enforced_exprs)
     /\ group_expressions \subseteq group_expressions']_vars

C12_Witness ==
  /\ IsInsert(call)
  /\ call.outcome = "returned"
  /\ call.target_group # UNDEFINED_GROUP
  /\ Cardinality(group_expressions) = 2
  /\ \E i \in 1 .. Len(groups) : Cardinality(Members(groups[i])) = 2

(* C13 as claimed: a group id is assigned at most once, so every          *)
(* insertion that returns, and thereby assigns the id, is of an           *)
(* expression whose id was not assigned before.                           *)
C13_AssignedAtMostOnce ==
  [][(IsInsert(call') /\ call'.outcome = "returned")
     => objs[call'.gexpr].group_id = UNDEFINED_GROUP]_vars

(* C13 as amended: once an expression's group id has a value, no step     *)
(* changes that value; an insertion of the same object assigns the same   *)
(* value again.                                                           *)
C13_GroupIdNeverChanges ==
  [][\A e \in 1 .. Len(objs) :
       objs[e].group_id # UNDEFINED_GROUP
         => objs'[e].group_id = objs[e].group_id]_vars

C13_Witness ==
  /\ IsInsert(call)
  /\ call.outcome = "returned"
  /\ call.branch = "hit"
  /\ call.gexpr \notin group_expressions
  /\ objs[call.gexpr].group_id # UNDEFINED_GROUP
  /\ Cardinality(group_expressions) = 1
  /\ Len(groups) = 2

(* ---- vocabulary of the properties of the transformer ---- *)

(* The i-th ConvertOpExpression call has ended. *)
Ended(i) == calls[i].outcome # "active"

(* The plan node kind that matches a join operator kind. *)
JoinPlanKind(type) ==
  IF type \in {"InnerNLJoin", "LeftNLJoin", "RightNLJoin", "OuterNLJoin"}
    THEN "NestedLoopJoin" ELSE "HashJoin"

(* The tree has an operator of the given kind, at the root or below. *)
RECURSIVE HasType(_, _)
HasType(op, type) ==
  \/ op.type = type
  \/ \E i \in 1 .. Len(op.children) : HasType(op.children[i], type)

(* The columns of the scan at the bottom of a chain of filters. *)
RECURSIVE ScanColumnsBelow(_)
ScanColumnsBelow(op) ==
  IF op.type = "Scan" THEN op.columns ELSE ScanColumnsBelow(op.children[1])

RECURSIVE IsFilterChain(_)
IsFilterChain(op) ==
  \/ op.type = "Scan"
  \/ op.type = "Filter" /\ Len(op.children) = 2 /\ IsFilterChain(op.children[1])

(* The context that VisitOpExpression saves and restores. *)
Context == <<current_children, left_columns, right_columns>>

(* C14: lowering a join of any kind over a left child with columns L and  *)
(* a right child with columns R returns a join plan node of the matching  *)
(* kind with the lowered left child first and the right child second, and *)
(* the output columns are L followed by R.                                *)
C14_JoinColumnOrder ==
  \A i \in 1 .. Len(calls) :
    ( /\ Ended(i)
      /\ calls[i].plan.type \in JoinTypes
      /\ Len(calls[i].plan.children) = 3 )
    => LET left == calls[i].plan.children[1]
           right == calls[i].plan.children[2]
       IN /\ calls[i].outcome = "returned"
          /\ calls[i].ret.kind = JoinPlanKind(calls[i].plan.type)
          /\ Len(calls[i].ret.children) = 2
          /\ calls[i].ret.children[1].table = left.table
          /\ calls[i].ret.children[2].table = right.table
          /\ calls[i].output_columns = left.columns \o right.columns

(* C15: ComputeExprs(targets b, c) over Filter(p2) over Scan(T, columns   *)
(* a, b, c, predicate p1) lowers to a projection node with output columns *)
(* b, c over a filter node, which is no scan node and carries p2, over a  *)
(* scan node of T with predicate p1 and columns a, b, c.                  *)
C15_EndToEndLowering ==
  \A i \in 1 .. Len(calls) :
    (Ended(i) /\ calls[i].plan = ComputeT)
    => /\ calls[i].outcome = "returned"
       /\ calls[i].ret.kind = "Projection"
       /\ calls[i].output_columns = <<ColB, ColC>>
       /\ Len(calls[i].ret.children) = 1
       /\ LET filter == calls[i].ret.children[1] IN
          /\ filter.kind # "SeqScan"
          /\ filter.predicate = "p2"
          /\ Len(filter.children) = 1
          /\ filter.children[1].kind = "SeqScan"
          /\ filter.children[1].table = "T"
          /\ filter.children[1].predicate = "p1"
          /\ filter.children[1].column_ids = <<"a", "b", "c">>

(* C16: lowering a tree with an operator kind that has no lowering rule   *)
(* (Project), at the root or below, ends with the unsupported-operator    *)
(* error and hands back no plan node.                                     *)
C16_UnsupportedOperatorError ==
  \A i \in 1 .. Len(calls) :
    (Ended(i) /\ HasType(calls[i].plan, "Project"))
    => /\ calls[i].outcome = "unsupported operator"
       /\ calls[i].ret = NullPlan

(* C17: the part of Visit(PhysicalFilter) that follows the lowering of    *)
(* the child, a Scan, Filter or ComputeExprs, leaves the output columns   *)
(* as the child's lowering left them, which for filters over a scan are   *)
(* the scan's columns, and makes the lowered child the only child of the  *)
(* filter's plan node.                                                    *)
FilterRestStep ==
  /\ Active
  /\ Top.pc = "after_child"
  /\ Top.op.type = "Filter"
  /\ stack' # stack

C17_FilterPassThrough ==
  [][( /\ FilterRestStep
       /\ Top.op.children[1].type \in {"Scan", "Filter", "ComputeExprs"} )
     => /\ output_columns' = output_columns
        /\ output_plan'.children = <<output_plan>>
        /\ output_plan # NullPlan
        /\ IsFilterChain(Top.op.children[1])
             => output_columns' = ScanColumnsBelow(Top.op.children[1])]_vars

C17_Witness ==
  /\ Active
  /\ Top.pc = "restore"
  /\ Top.op = FilterFilter
  /\ output_columns = <<ColA, ColB, ColC>>
  /\ Len(output_plan.children) = 1
  /\ output_plan.children[1].children # <<>>
  /\ output_plan.children[1].children[1].table = "T"

(* C18: lowering a Scan without children succeeds with a scan node of the *)
(* table, no predicate and the scan's columns, and the output columns are *)
(* the scan's columns.                                                    *)
C18_ScanWithoutPredicate ==
  \A i \in 1 .. Len(calls) :
    (Ended(i) /\ calls[i].plan = ScanBare)
    => /\ calls[i].outcome = "returned"
       /\ calls[i].ret = SeqScanPlan("T", NullPredicate, <<"a", "b", "c">>)
       /\ calls[i].output_columns = <<ColA, ColB, ColC>>

(* C19: two ConvertOpExpression calls on the same tree end the same way,  *)
(* with the same plan and the same output columns, whatever was lowered   *)
(* in between or before.                                                  *)
C19_NoCarriedState ==
  \A i, j \in 1 .. Len(calls) :
    (Ended(i) /\ Ended(j) /\ calls[i].plan = calls[j].plan)
    => /\ calls[i].outcome = calls[j].outcome
       /\ calls[i].ret = calls[j].ret
       /\ calls[i].output_columns = calls[j].output_columns

(* C20: VisitOpExpression copies the context (current children, left and  *)
(* right columns) into its locals when it starts, nothing changes those   *)
(* locals while it runs, and when it returns the context is again what it *)
(* was before the call.                                                   *)
Saved(f) == <<f.prev_children, f.prev_left_cols, f.prev_right_cols>>

EnterStep ==
  /\ Active
  /\ Top.pc = "enter"
  /\ stack' # stack

ReturnStep ==
  /\ Active
  /\ Top.pc = "restore"
  /\ Len(stack') < Len(stack)

C20_ContextRestored ==
  [][/\ EnterStep => Saved(stack'[Len(stack)]) = Context
     /\ \A k \in 1 .. Len(stack) :
          (k <= Len(stack') /\ stack[k].pc # "enter")
            => Saved(stack'[k]) = Saved(stack[k])
     /\ ReturnStep => Context' = Saved(Top)]_vars

C20_Witness ==
  /\ Active
  /\ Top.pc = "after_child"
  /\ Top.op = FilterT
  /\ output_columns = <<ColA, ColB, ColC>>
  /\ output_plan.table = "T"
  /\ current_children = Top.op.children
  /\ left_columns = <<>>
  /\ right_columns = <<>>

(* ---- the memo: dedup contract, enforced flag, failures ---- *)

(* The non-Leaf expressions that have been inserted: an insertion that    *)
(* returns leaves a group id in the expression.                           *)
Inserted ==
  {e \in 1 .. Len(objs) :
     objs[e].op.type # "Leaf" /\ objs[e].group_id # UNDEFINED_GROUP}

(* The structurally distinct expressions among them. *)
Classes ==
  {[op |-> objs[e].op, child_groups |-> objs[e].child_groups] :
     e \in Inserted}

(* Every member of every group, as (group id, list, position). *)
Slots ==
  {<<i, "expressions", n>> :
     i \in 1 .. Len(groups), n \in 1 .. MaxObjs + MaxGroups + 2}
  \cup
  {<<i, "enforced_exprs", n>> :
     i \in 1 .. Len(groups), n \in 1 .. MaxObjs + MaxGroups + 2}

Filled ==
  {sl \in Slots :
     sl[3] <= Len(IF sl[2] = "expressions" THEN groups[sl[1]].expressions
                  ELSE groups[sl[1]].enforced_exprs)}

At(sl) ==
  IF sl[2] = "expressions" THEN groups[sl[1]].expressions[sl[3]]
  ELSE groups[sl[1]].enforced_exprs[sl[3]]

(* C21: when non-Leaf expressions are inserted with UNDEFINED_GROUP, in   *)
(* any order and any number of times each, the number of groups and the   *)
(* number of index entries both equal the number of structurally distinct *)
(* expressions inserted, and no two members stored in the groups are      *)
(* structurally equal.                                                    *)
C21_OrderRepetitionIndependence ==
  /\ Len(groups) = Cardinality(Classes)
  /\ Cardinality(group_expressions) = Cardinality(Classes)
  /\ \A a, b \in Filled :
       a # b => ~StructEq(objs[At(a)], objs[At(b)])

(* Two structurally equal objects have both been inserted, the first one  *)
(* more than once, and share one group.                                   *)
C21_Witness ==
  /\ Len(objs) = 2
  /\ StructEq(objs[1], objs[2])
  /\ Inserted = {1, 2}
  /\ call.op = "InsertExpression2"
  /\ call.branch = "hit"
  /\ call.gexpr = 1
  /\ Len(groups) = 1

(* C22: on a miss the expression joins the enforcer list of its group if  *)
(* and only if enforced is true, and the alternative list otherwise; on a *)
(* hit the flag is ignored and every group keeps its two lists, so the    *)
(* representative stays in the list it was first inserted into.           *)
C22_EnforcedOnlyOnMiss ==
  [][/\ (MissStep /\ call'.outcome = "returned")
          => LET g == call'.gexpr
                 grp == groups'[objs'[g].group_id + 1]
             IN /\ (g \in Range(grp.enforced_exprs)) <=> call'.enforced
                /\ (g \in Range(grp.expressions)) <=> ~call'.enforced
     /\ HitStep => groups' = groups]_vars

(* A hit with enforced set on a representative that is an alternative,    *)
(* after a miss that put an enforcer into a group.                        *)
C22_Witness ==
  /\ IsInsert(call)
  /\ call.branch = "hit"
  /\ call.outcome = "returned"
  /\ call.enforced
  /\ \E i \in 1 .. Len(groups) : call.ret \in Range(groups[i].expressions)
  /\ \E i \in 1 .. Len(groups) : groups[i].enforced_exprs # <<>>

(* C23: every group id held by an expression that went through            *)
(* InsertExpression is the id of an allocated group: it is smaller than   *)
(* the number of groups.                                                  *)
C23_GroupIdsAllocated ==
  \A e \in 1 .. Len(objs) :
    objs[e].group_id # UNDEFINED_GROUP
      => InRange(groups, objs[e].group_id)

(* C24: an insertion that fails (a target group that conflicts on a hit   *)
(* or on a Leaf, an unallocated target group on a miss) leaves the group  *)
(* list, the members of every group and the dedup index as they were.     *)
C24_FailureLeavesMemoUnchanged ==
  [][(IsInsert(call') /\ call'.outcome # "returned")
       => /\ groups' = groups
          /\ group_expressions' = group_expressions]_vars

(* ---- IntsKey: round trip and order ---- *)

(* The bytes of the key outside [offset, offset + w). *)
Outside(offset, w) ==
  {i \in 1 .. key_size_byte : i <= offset \/ i > offset + w}

(* C25: AddInteger(v, offset) followed by GetInteger at the same offset   *)
(* returns v, for each signed width, each value and each offset that      *)
(* leaves room, and the bytes of the key outside [offset, offset + width) *)
(* stay as they were; likewise for AddUnsignedInteger and                 *)
(* GetUnsignedInteger.                                                    *)
C25_RoundTrip ==
  [][/\ kcall'.op = "AddInteger"
          => /\ GetInteger(key_data', kcall'.type, kcall'.offset)
                  = kcall'.data
             /\ \A i \in Outside(kcall'.offset, SizeOf(kcall'.type)) :
                  key_data'[i] = key_data[i]
     /\ kcall'.op = "AddUnsignedInteger"
          => /\ GetUnsignedInteger(key_data', kcall'.type, kcall'.offset)
                  = kcall'.data
             /\ \A i \in Outside(kcall'.offset, SizeOf(kcall'.type)) :
                  key_data'[i] = key_data[i]]_vars

(* The negative 32 bit integer -1 has been added at the odd offset 3 of  *)
(* a key that held 0xFF in every byte.                                    *)
C25_Witness ==
  /\ kcall.op = "AddInteger"
  /\ kcall.type = "int32_t"
  /\ kcall.data = FromInt(4, -1)
  /\ kcall.offset = 3
  /\ key_data[1] = 255
  /\ key_data[8] = 255
  /\ key_data[4] = 127

(* The order of two signed integers of one width, and of two tuples of    *)
(* one schema, first column most significant: -1, 0 or 1.                 *)
Sign(n) == IF n < 0 THEN -1 ELSE IF n > 0 THEN 1 ELSE 0

Negative(x) == x[1] >= 128

SignedCompare(x, y) ==
  IF Negative(x) # Negative(y)
    THEN IF Negative(x) THEN -1 ELSE 1
    ELSE LET i == FirstDiff(x, y) IN
         IF i = 0 THEN 0 ELSE Sign(x[i] - y[i])

TupleCompare(s, t) ==
  LET i == FirstDiff(s, t) IN
  IF i = 0 THEN 0 ELSE SignedCompare(s[i], t[i])

(* C26: for two keys set from tuples of the same signed integer column    *)
(* types, Compare is negative, zero or positive exactly when the first    *)
(* tuple is less than, equal to or greater than the second in             *)
(* lexicographic order, and LessThan and Equals agree with Compare.       *)
C26_OrderPreservation ==
  (source.a # NoTuple /\ source.b # NoTuple /\ KeyRunning)
    => LET order == TupleCompare(source.a, source.b) IN
       /\ kcall.op = "Compare" => Sign(kcall.cmp) = order
       /\ kcall.op = "LessThan" => kcall.flag = (order < 0)
       /\ kcall.op = "Equals" => kcall.flag = (order = 0)

====
